---------------------------- MODULE Spec2Model ----------------------------
(***************************************************************************)
(* Model of the shelter / encampment pipeline (backend/clustering.py) and  *)
(* of the boundary polygon helper of the query API (backend/app.py).       *)
(*                                                                         *)
(* The script runs top to bottom; `pc` is its position.  Each section of   *)
(* the script is one specification, started in the state in which the      *)
(* script enters that section:                                             *)
(*   SpecAggregate    sections 1-2  (load shelters, aggregate, occ_rate)   *)
(*   SpecGeocode      sections 3-4  (address filter, cache, geocoding)     *)
(*   SpecCluster      sections 5-7  (demand points, k-means, need score)   *)
(*   SpecMaterialize  section 8     (upload and local CSV files)           *)
(*   SpecBoundary     app.py make_circle                                   *)
(***************************************************************************)
EXTENDS Integers, Sequences, FiniteSets

VARIABLES
    pc,            \* position of the script
    df,            \* raw shelter rows, restricted to cols_needed
    df_clean,      \* the rows with both bed columns present
    agg,           \* aggregated shelters, one row per (name, address)
    cache,         \* geocode cache rows <<address, lat, lon>>
    geoIdx,        \* number of agg addresses already geocoded
    results,       \* (lats, lons) collected by the geocoding loop
    geoCalls,      \* external geocoder calls so far, per address
    shelters_out,  \* shelters table
    enc,           \* encampments.csv as read
    demand,        \* demand points (encampments)
    reps,          \* replication count per demand point (the rows of `expanded`)
    centroids,     \* kmeans.cluster_centers_
    clusters_out,  \* cluster summary rows
    client,        \* BigQuery client, or "None"
    uploaded,      \* tables loaded into BigQuery by this run
    files,         \* local CSV files: name -> content
    log,           \* what the upload section logged / printed
    circle         \* make_circle: arguments, loop angle and points so far

vars == <<pc, df, df_clean, agg, cache, geoIdx, results, geoCalls, shelters_out, enc,
          demand, reps, centroids, clusters_out, client, uploaded, files, log, circle>>

shelterVars == <<df, df_clean, agg>>
geoVars     == <<cache, geoIdx, results, geoCalls, shelters_out>>
clusterVars == <<enc, demand, reps, centroids, clusters_out>>
uploadVars  == <<client, uploaded, files, log>>

-----------------------------------------------------------------------------
(* float64 values as the pipeline uses them: NaN, +-inf, or an exact       *)
(* rational n/d with d > 0 kept in lowest terms.                           *)

Abs(i) == IF i < 0 THEN -i ELSE i

Sgn(i) == IF i < 0 THEN -1 ELSE IF i > 0 THEN 1 ELSE 0

RECURSIVE GCD(_, _)
GCD(a, b) == IF b = 0 THEN a ELSE GCD(b, a % b)

NaN == [k |-> "nan", n |-> 0, d |-> 1]

Inf(s) == [k |-> "inf", n |-> s, d |-> 1]

Fin(n, d) ==
    LET g == GCD(Abs(n), d)
    IN  [k |-> "fin", n |-> (n \div g), d |-> (d \div g)]

FromInt(i) == [k |-> "fin", n |-> i, d |-> 1]

IsNaN(x) == x.k = "nan"

IsFin(x) == x.k = "fin"

\* x < y for non-NaN x, y
FLt(x, y) ==
    CASE x.k = "inf" /\ y.k = "inf" -> x.n < y.n
      [] x.k = "inf" -> x.n < 0
      [] y.k = "inf" -> y.n > 0
      [] OTHER -> x.n * y.d < y.n * x.d

FLe(x, y) == x = y \/ FLt(x, y)

FAdd(x, y) ==
    CASE IsNaN(x) \/ IsNaN(y) -> NaN
      [] x.k = "inf" /\ y.k = "inf" -> IF x.n = y.n THEN x ELSE NaN
      [] x.k = "inf" -> x
      [] y.k = "inf" -> y
      [] OTHER -> Fin(x.n * y.d + y.n * x.d, x.d * y.d)

FMul(x, y) ==
    CASE IsNaN(x) \/ IsNaN(y) -> NaN
      [] x.k = "inf" \/ y.k = "inf" ->
            IF Sgn(x.n) * Sgn(y.n) = 0 THEN NaN ELSE Inf(Sgn(x.n) * Sgn(y.n))
      [] OTHER -> Fin(x.n * y.n, x.d * y.d)

\* numpy float division: x/0 is +-inf, 0/0 is NaN, nothing raises
FDiv(x, y) ==
    CASE IsNaN(x) \/ IsNaN(y) -> NaN
      [] x.k = "inf" /\ y.k = "inf" -> NaN
      [] x.k = "inf" -> Inf(IF y.n < 0 THEN -x.n ELSE x.n)
      [] y.k = "inf" -> FromInt(0)
      [] y.n = 0 -> IF x.n = 0 THEN NaN ELSE Inf(Sgn(x.n))
      [] OTHER -> Fin(x.n * y.d * Sgn(y.n), x.d * Abs(y.n))

\* Series.clip(lo, hi): NaN stays NaN
Clip(x, lo, hi) ==
    IF IsNaN(x) THEN x
    ELSE IF FLt(x, lo) THEN lo
    ELSE IF FLt(hi, x) THEN hi
    ELSE x

\* Series.fillna(v)
FillNa(x, v) == IF IsNaN(x) THEN v ELSE x

RECURSIVE FSum(_)
FSum(s) == IF s = <<>> THEN FromInt(0) ELSE FAdd(Head(s), FSum(Tail(s)))

\* the subsequence of s whose elements satisfy Test
SelectNotNa(s) == SelectSeq(s, LAMBDA x : ~IsNaN(x))

\* pandas mean: NaN cells are skipped; the mean of no cells is NaN
Mean(s) ==
    LET v == SelectNotNa(s)
    IN  IF v = <<>> THEN NaN ELSE FDiv(FSum(v), FromInt(Len(v)))

Column(rows, c) == [i \in 1..Len(rows) |-> rows[i][c]]

\* all sequences over S of length 0..n
SeqsUpTo(S, n) == UNION {[1..m -> S] : m \in 0..n}

-----------------------------------------------------------------------------
(* Sections 1-2: load and aggregate the shelter rows.                      *)

MaxRows == 2

N_CLUSTERS == 5

ShelterNames == <<"Shelter A", "Shelter B">>

\* the address strings of the model, in the order pandas sorts them
AddressOrder == <<"100 Queen St W", "12 St", "339 George St", "NaN", "nan">>

RankIn(order, x) == CHOOSE i \in 1..Len(order) : order[i] = x

KeyLe(a, b) ==
    LET na == RankIn(ShelterNames, a[1])
        nb == RankIn(ShelterNames, b[1])
    IN  \/ na < nb
        \/ na = nb /\ RankIn(AddressOrder, a[2]) <= RankIn(AddressOrder, b[2])

\* groupby keys come out sorted
RECURSIVE SortKeys(_)
SortKeys(S) ==
    IF S = {} THEN <<>>
    ELSE LET m == CHOOSE x \in S : \A y \in S : KeyLe(x, y)
         IN  <<m>> \o SortKeys(S \ {m})

\* cell values of the three numeric columns in the modelled shelters.csv
CapacityCells == {NaN, FromInt(0), FromInt(2)}

OccupiedCells == {NaN, FromInt(-1), FromInt(0), FromInt(3)}

RateCells == {NaN, FromInt(50)}

ShelterRows ==
    [LOCATION_NAME : {"Shelter A"},
     LOCATION_ADDRESS : {"100 Queen St W", "339 George St"},
     CAPACITY_FUNDING_BED : CapacityCells,
     OCCUPIED_BEDS : OccupiedCells,
     OCCUPANCY_RATE_BEDS : RateCells]

\* lines 33-50: read shelters.csv, keep cols_needed (an absent column is all NaN)
LoadShelters ==
    /\ pc = "load_shelters"
    /\ \E rows \in SeqsUpTo(ShelterRows, MaxRows) : df' = rows
    /\ pc' = "clean"
    /\ UNCHANGED <<df_clean, agg, geoVars, clusterVars, uploadVars, circle>>

BothBedsPresent(r) ==
    ~IsNaN(r.CAPACITY_FUNDING_BED) /\ ~IsNaN(r.OCCUPIED_BEDS)

\* lines 59-62: drop the rows lacking a bed column; the progress print divides
\* by len(df), so an empty shelters.csv ends the run with ZeroDivisionError
CleanRows ==
    /\ pc = "clean"
    /\ df_clean' = SelectSeq(df, BothBedsPresent)
    /\ pc' = IF Len(df) = 0 THEN "aborted" ELSE "aggregate"
    /\ UNCHANGED <<df, agg, geoVars, clusterVars, uploadVars, circle>>

GroupRows(rows, key) ==
    SelectSeq(rows, LAMBDA r : <<r.LOCATION_NAME, r.LOCATION_ADDRESS>> = key)

GroupKeys(rows) ==
    {<<rows[i].LOCATION_NAME, rows[i].LOCATION_ADDRESS>> : i \in 1..Len(rows)}

\* lines 64-68: one row per (name, address) with the column means
AggRow(rows, key) ==
    LET g == GroupRows(rows, key)
    IN  [LOCATION_NAME |-> key[1],
         LOCATION_ADDRESS |-> key[2],
         avg_capacity_beds |-> Mean(Column(g, "CAPACITY_FUNDING_BED")),
         avg_occupied_beds |-> Mean(Column(g, "OCCUPIED_BEDS")),
         avg_occ_rate_beds |-> Mean(Column(g, "OCCUPANCY_RATE_BEDS"))]

Aggregate ==
    /\ pc = "aggregate"
    /\ LET keys == SortKeys(GroupKeys(df_clean))
       IN  agg' = [i \in 1..Len(keys) |-> AggRow(df_clean, keys[i])]
    /\ pc' = "occ_rate"
    /\ UNCHANGED <<df, df_clean, geoVars, clusterVars, uploadVars, circle>>

\* a plausible variant: the reported mean rate is used when it is present
OccRateTrustReported(r) ==
    IF ~IsNaN(r.avg_occ_rate_beds)
    THEN FillNa(Clip(r.avg_occ_rate_beds, FromInt(0), FromInt(100)), FromInt(0))
    ELSE FillNa(Clip(FMul(FDiv(r.avg_occupied_beds, r.avg_capacity_beds),
                          FromInt(100)),
                     FromInt(0), FromInt(100)),
                FromInt(0))

\* a plausible variant: the upper clip is forgotten
OccRateNoUpperClip(r) ==
    LET x == FMul(FDiv(r.avg_occupied_beds, r.avg_capacity_beds), FromInt(100))
    IN  FillNa(IF ~IsNaN(x) /\ FLt(x, FromInt(0)) THEN FromInt(0) ELSE x,
               FromInt(0))

\* lines 71-72: occ_rate = (occupied / capacity * 100).clip(0, 100).fillna(0)
OccRate(r) ==
    FillNa(Clip(FMul(FDiv(r.avg_occupied_beds, r.avg_capacity_beds),
                     FromInt(100)),
                FromInt(0), FromInt(100)),
           FromInt(0))

WithOccRate(r) ==
    [LOCATION_NAME |-> r.LOCATION_NAME,
     LOCATION_ADDRESS |-> r.LOCATION_ADDRESS,
     avg_capacity_beds |-> r.avg_capacity_beds,
     avg_occupied_beds |-> r.avg_occupied_beds,
     avg_occ_rate_beds |-> r.avg_occ_rate_beds,
     occ_rate |-> OccRate(r)]

ComputeOccRate ==
    /\ pc = "occ_rate"
    /\ agg' = [i \in 1..Len(agg) |-> WithOccRate(agg[i])]
    /\ pc' = "geocode"
    /\ UNCHANGED <<df, df_clean, geoVars, clusterVars, uploadVars, circle>>

\* the variables of the later sections before those sections run
LaterIdle ==
    /\ cache = <<>> /\ geoIdx = 0 /\ results = <<>>
    /\ geoCalls = <<>> /\ shelters_out = <<>>
    /\ enc = <<>> /\ demand = <<>> /\ reps = <<>> /\ centroids = <<>> /\ clusters_out = <<>>
    /\ client = "None" /\ uploaded = {} /\ files = <<>> /\ log = <<>>
    /\ circle = <<>>

InitAggregate ==
    /\ pc = "load_shelters"
    /\ df = <<>> /\ df_clean = <<>> /\ agg = <<>>
    /\ LaterIdle

NextAggregate == LoadShelters \/ CleanRows \/ Aggregate \/ ComputeOccRate

SpecAggregate == InitAggregate /\ [][NextAggregate]_vars

\* the aggregated rows once occ_rate has been computed
Rated == IF pc = "geocode" THEN {agg[i] : i \in 1..Len(agg)} ELSE {}

(* ---- claims about the Shelter Aggregator (SpecAggregate) ---- *)

Positive(x) == IsFin(x) /\ x.n > 0

InPercentRange(x) == IsFin(x) /\ x.n >= 0 /\ x.n <= 100 * x.d

\* C1: every aggregated shelter whose mean bed capacity is known and greater
\* than 0 has an occ_rate in [0, 100], whatever its mean occupied beds are.
C1_OccRateInRange ==
    \A r \in Rated : Positive(r.avg_capacity_beds) => InPercentRange(r.occ_rate)

\* C1 witness: an aggregated shelter with more occupied beds than capacity,
\* whose occ_rate was clipped to 100.
C1_Witness ==
    \E r \in Rated :
        /\ Positive(r.avg_capacity_beds)
        /\ FLt(r.avg_capacity_beds, r.avg_occupied_beds)
        /\ r.occ_rate = FromInt(100)

\* C2: every aggregated shelter whose mean bed capacity is 0 has occ_rate 0
\* (never NaN), for every occupied-beds value, zero or positive.
C2_ZeroCapacityGivesZero ==
    \A r \in Rated :
        (r.avg_capacity_beds = FromInt(0) /\ ~FLt(r.avg_occupied_beds, FromInt(0)))
            => r.occ_rate = FromInt(0)

\* the reported mean rate, clipped to [0, 100]
ReportedClipped(r) == Clip(r.avg_occ_rate_beds, FromInt(0), FromInt(100))

\* occ_rate is occupied / capacity * 100 clipped to [0, 100], stated by cross
\* multiplication; a zero capacity makes the quotient +-inf or NaN
RateFromBeds(r) ==
    LET o == r.avg_occupied_beds
        c == r.avg_capacity_beds
        x == r.occ_rate
        num == o.n * c.d * 100 * Sgn(c.n)
        den == o.d * Abs(c.n)
    IN  /\ IsFin(o) /\ IsFin(c) /\ IsFin(x)
        /\ IF c.n = 0 THEN x = FromInt(IF o.n > 0 THEN 100 ELSE 0)
           ELSE IF num < 0 THEN x = FromInt(0)
           ELSE IF num > 100 * den THEN x = FromInt(100)
           ELSE x.n * den = num * x.d

-----------------------------------------------------------------------------
(* Sections 3-4: address filter, geocode cache, geocoding loop, shelters   *)
(* table.                                                                  *)

MaxShelters == 3

\* str.lower() of the modelled (already stripped) address strings
StrLower(a) ==
    CASE a = "100 Queen St W" -> "100 queen st w"
      [] a = "12 St" -> "12 st"
      [] a = "339 George St" -> "339 george st"
      [] a = "NaN" -> "nan"
      [] a = "nan" -> "nan"

\* lines 96-98 (line 96 drops nothing: the column was made str on line 50)
ValidAddress(r) ==
    /\ StrLower(r.LOCATION_ADDRESS) # "nan"
    /\ Len(r.LOCATION_ADDRESS) > 5

FilterAddresses ==
    /\ pc = "geocode"
    /\ agg' = SelectSeq(agg, ValidAddress)
    /\ pc' = "load_cache"
    /\ UNCHANGED <<df, df_clean, geoVars, clusterVars, uploadVars, circle>>

\* coordinates on the model's grid, as float values
GeoLats == {FromInt(0), FromInt(2)}

GeoLons == {FromInt(0)}

CacheRow(a, la, lo) == [LOCATION_ADDRESS |-> a, lat |-> la, lon |-> lo]

\* what a geocode_cache.csv left by earlier runs can hold for one address
CachedFor(a) ==
    {<<>>, <<CacheRow(a, NaN, NaN)>>}
        \cup {<<CacheRow(a, la, lo)>> : la \in GeoLats, lo \in GeoLons}

\* lines 102-106: read the cache file; any failure gives an empty cache
LoadCache ==
    /\ pc = "load_cache"
    /\ \E c1 \in CachedFor("100 Queen St W"), c2 \in CachedFor("339 George St") :
          cache' = c1 \o c2
    /\ pc' = "geocoding"
    /\ UNCHANGED <<df, df_clean, agg, geoIdx, results, geoCalls, shelters_out,
                   clusterVars, uploadVars, circle>>

\* a plausible variant: rows cached as unresolved do not count as cached
CacheRowsResolvedOnly(c, addr) ==
    SelectSeq(c, LAMBDA r : r.LOCATION_ADDRESS = addr /\ ~IsNaN(r.lat))

\* line 111: cache[cache["LOCATION_ADDRESS"] == addr]
CacheRows(c, addr) == SelectSeq(c, LAMBDA r : r.LOCATION_ADDRESS = addr)

\* what geocode(query, timeout=10) can do: return a location, return None, raise
GeocoderOutcomes ==
    {[kind |-> "found", lat |-> la, lon |-> lo] : la \in GeoLats, lo \in GeoLons}
        \cup {[kind |-> "none", lat |-> NaN, lon |-> NaN],
              [kind |-> "raise", lat |-> NaN, lon |-> NaN]}

\* lines 117-125: the coordinates geocode_address derives from an outcome
OutcomeLatLon(o) ==
    IF o.kind = "found" THEN <<o.lat, o.lon>> ELSE <<NaN, NaN>>

\* lines 109-128 called from the loop of lines 134-137, one address per step
GeocodeAddress ==
    /\ pc = "geocoding"
    /\ geoIdx < Len(agg)
    /\ LET addr == agg[geoIdx + 1].LOCATION_ADDRESS
           row == CacheRows(cache, addr)
       IN  IF Len(row) > 0
           THEN /\ results' = Append(results, <<row[1].lat, row[1].lon>>)
                /\ UNCHANGED <<cache, geoCalls>>
           ELSE \E o \in GeocoderOutcomes :
                  LET ll == OutcomeLatLon(o)
                  IN  /\ geoCalls' = Append(geoCalls, [addr |-> addr, kind |-> o.kind])
                      /\ cache' = Append(cache, CacheRow(addr, ll[1], ll[2]))
                      /\ results' = Append(results, ll)
    /\ geoIdx' = geoIdx + 1
    /\ UNCHANGED <<pc, df, df_clean, agg, shelters_out, clusterVars, uploadVars,
                   circle>>

WithLatLon(r, ll) ==
    [LOCATION_NAME |-> r.LOCATION_NAME,
     LOCATION_ADDRESS |-> r.LOCATION_ADDRESS,
     avg_capacity_beds |-> r.avg_capacity_beds,
     avg_occupied_beds |-> r.avg_occupied_beds,
     avg_occ_rate_beds |-> r.avg_occ_rate_beds,
     occ_rate |-> r.occ_rate,
     lat |-> ll[1],
     lon |-> ll[2]]

Geocoded(r) == ~IsNaN(r.lat) /\ ~IsNaN(r.lon)

\* lines 139-144: attach lats / lons, write the cache file, drop unresolved rows
FinishGeocoding ==
    /\ pc = "geocoding"
    /\ geoIdx = Len(agg)
    /\ agg' = SelectSeq([i \in 1..Len(agg) |-> WithLatLon(agg[i], results[i])],
                        Geocoded)
    /\ files' = [f \in {"geocode_cache.csv"} |-> cache]
    /\ pc' = "shelters_table"
    /\ UNCHANGED <<df, df_clean, geoVars, clusterVars, client, uploaded, log,
                   circle>>

\* lines 154-160: rename and select the shelters table columns
SheltersRow(r) ==
    [name |-> r.LOCATION_NAME,
     address |-> r.LOCATION_ADDRESS,
     lat |-> r.lat,
     lon |-> r.lon,
     avg_capacity_beds |-> r.avg_capacity_beds,
     avg_occupied_beds |-> r.avg_occupied_beds,
     occ_rate |-> r.occ_rate]

BuildSheltersTable ==
    /\ pc = "shelters_table"
    /\ shelters_out' = [i \in 1..Len(agg) |-> SheltersRow(agg[i])]
    /\ pc' = "load_encampments"
    /\ UNCHANGED <<df, df_clean, agg, cache, geoIdx, results, geoCalls,
                   clusterVars, uploadVars, circle>>

\* an aggregated shelter as section 2 leaves it (2 beds, 1 occupied)
AggOf(key) ==
    WithOccRate([LOCATION_NAME |-> key[1],
                 LOCATION_ADDRESS |-> key[2],
                 avg_capacity_beds |-> FromInt(2),
                 avg_occupied_beds |-> FromInt(1),
                 avg_occ_rate_beds |-> NaN])

GeoAddresses == {"100 Queen St W", "339 George St", "NaN", "12 St"}

GeoKeys == {"Shelter A", "Shelter B"} \X GeoAddresses

\* section 3 starts with agg holding distinct (name, address) rows, sorted
InitGeocode ==
    /\ pc = "geocode"
    /\ df = <<>> /\ df_clean = <<>>
    /\ \E K \in SUBSET GeoKeys :
          /\ Cardinality(K) <= MaxShelters
          /\ agg = [i \in 1..Cardinality(K) |-> AggOf(SortKeys(K)[i])]
    /\ LaterIdle

NextGeocode ==
    \/ FilterAddresses
    \/ LoadCache
    \/ GeocodeAddress
    \/ FinishGeocoding
    \/ BuildSheltersTable

SpecGeocode == InitGeocode /\ [][NextGeocode]_vars

(* ---- claims about the Address Resolver (SpecGeocode) ---- *)

\* the cache rows appended by this run, one per geocoder call
CacheAtStart == Len(cache) - Len(geoCalls)

Unresolved(ll) == IsNaN(ll[1]) /\ IsNaN(ll[2])

\* C10: within one run the external geocoder is called at most once per
\* distinct address and never for an address already in the cache (also one
\* cached as unresolved); a repeated resolve returns what the first returned;
\* a failed or empty lookup gives an unresolved result and never ends the
\* run; no shelter with an unresolved result is in the shelters table.
C10_GeocodeOncePerAddress ==
    /\ pc # "aborted"
    /\ CacheAtStart >= 0
    /\ \A i \in 1..Len(geoCalls) :
          LET row == cache[CacheAtStart + i]
          IN  /\ row.LOCATION_ADDRESS = geoCalls[i].addr
              /\ geoCalls[i].kind # "found" => Unresolved(<<row.lat, row.lon>>)
    /\ \A i, j \in 1..Len(cache) :
          i < j => cache[i].LOCATION_ADDRESS # cache[j].LOCATION_ADDRESS
    /\ pc = "geocoding" =>
          \A i, j \in 1..Len(results) :
              agg[i].LOCATION_ADDRESS = agg[j].LOCATION_ADDRESS
                  => results[i] = results[j]
    /\ \A i \in 1..Len(shelters_out) : \A j \in 1..Len(cache) :
          cache[j].LOCATION_ADDRESS = shelters_out[i].address
              => /\ ~Unresolved(<<cache[j].lat, cache[j].lon>>)
                 /\ shelters_out[i].lat = cache[j].lat
                 /\ shelters_out[i].lon = cache[j].lon

\* C10 witness: two shelters share an address; the one geocoder call for it
\* raised, and the second resolve returned the cached unresolved result.
C10_Witness ==
    /\ pc = "geocoding"
    /\ geoIdx = 2
    /\ agg[1].LOCATION_ADDRESS = agg[2].LOCATION_ADDRESS
    /\ Len(geoCalls) = 1
    /\ geoCalls[1].kind = "raise"
    /\ Unresolved(results[2])

-----------------------------------------------------------------------------
(* Sections 5-7: demand points, weighted k-means, cluster summary, need    *)
(* score and priority.                                                     *)

MaxPoints == 2

KmPerDegree == 111

NoShelterKm == 999

\* a non-numeric csv cell
Text == [k |-> "str", n |-> 0, d |-> 1]

\* cells of the weight column: missing, non-numeric text, negative, zero, positive
WeightCells == {NaN, Text, FromInt(-1), FromInt(0), Fin(1, 4)}

EncRows(cells) ==
    [name : {"camp"}, lat : GeoLats, lon : GeoLons, weight : cells]

\* lines 168-171: read encampments.csv, with or without a weight column
ReadEncampments(cells) ==
    /\ pc = "load_encampments"
    /\ \/ \E rows \in SeqsUpTo(EncRows(cells), MaxPoints) :
             enc' = [has_weight |-> TRUE, rows |-> rows]
       \/ \E rows \in SeqsUpTo(EncRows({NaN}), MaxPoints) :
             enc' = [has_weight |-> FALSE, rows |-> rows]
    /\ pc' = "build_demand"
    /\ UNCHANGED <<shelterVars, geoVars, demand, reps, centroids, clusters_out,
                   uploadVars, circle>>

LoadEncampments == ReadEncampments(WeightCells)

\* pd.to_numeric(errors="coerce"): what is not a number becomes NaN
ToNumeric(x) == IF x.k = "str" THEN NaN ELSE x

\* lines 174-177: the weight of a demand point
EncWeight(has_weight, cell) ==
    IF ~has_weight THEN FromInt(1) ELSE FillNa(ToNumeric(cell), FromInt(1))

\* lines 174-182
BuildDemand ==
    /\ pc = "build_demand"
    /\ demand' = [i \in 1..Len(enc.rows) |->
                    [name |-> enc.rows[i].name,
                     lat |-> enc.rows[i].lat,
                     lon |-> enc.rows[i].lon,
                     weight |-> EncWeight(enc.has_weight, enc.rows[i].weight),
                     source |-> "encampment"]]
    /\ pc' = "cluster"
    /\ UNCHANGED <<shelterVars, geoVars, enc, reps, centroids, clusters_out,
                   uploadVars, circle>>

\* Python round(): to the nearest integer, halves to the even one
RoundHalfEven(x) ==
    LET f == x.n \div x.d
        r2 == 2 * (x.n - f * x.d)
    IN  IF r2 < x.d THEN f
        ELSE IF r2 > x.d THEN f + 1
        ELSE IF f % 2 = 0 THEN f ELSE f + 1

Max(a, b) == IF a >= b THEN a ELSE b

\* lines 194-200: the weight is a float that is never NaN here (line 177)
Replications(w) ==
    LET w0 == IF IsNaN(w) THEN FromInt(0) ELSE w
    IN  Max(1, RoundHalfEven(FMul(w0, FromInt(10))))

RECURSIVE SumInts(_)
SumInts(s) == IF s = <<>> THEN 0 ELSE Head(s) + SumInts(Tail(s))

Lats(rows) == {rows[i].lat : i \in 1..Len(rows)}

\* KMeans(n_clusters=5).fit: the centres lie within the range of the samples
KMeansCentres(rows) ==
    {c \in [0..(N_CLUSTERS - 1) -> (GeoLats \X GeoLons)] :
        \A cid \in 0..(N_CLUSTERS - 1) :
            /\ \E la \in Lats(rows) : FLe(la, c[cid][1])
            /\ \E la \in Lats(rows) : FLe(c[cid][1], la)}

\* lines 192-211: replicate the points and fit k-means; KMeans raises
\* ValueError with fewer samples than clusters (and no row gives no columns)
ExpandAndCluster ==
    /\ pc = "cluster"
    /\ reps' = [i \in 1..Len(demand) |-> Replications(demand[i].weight)]
    /\ IF SumInts(reps') < N_CLUSTERS
       THEN pc' = "aborted" /\ UNCHANGED centroids
       ELSE /\ \E c \in KMeansCentres(demand) : centroids' = c
            /\ pc' = "assign"
    /\ UNCHANGED <<shelterVars, geoVars, enc, demand, clusters_out,
                   uploadVars, circle>>

FAbs(x) == IF IsFin(x) THEN Fin(Abs(x.n), x.d) ELSE IF IsNaN(x) THEN x ELSE Inf(1)

FNeg(x) == IF IsNaN(x) THEN x ELSE [k |-> x.k, n |-> -x.n, d |-> x.d]

\* geodesic(p, q).km for two points of the model, which lie on one meridian:
\* the arc between their latitudes
GeodesicKm(p, q) == FMul(FromInt(KmPerDegree), FAbs(FAdd(p[1], FNeg(q[1]))))

\* a plausible variant: the index is counted from 1
NearestClusterOneBased(lat, lon) ==
    1 + (CHOOSE c \in 0..(N_CLUSTERS - 1) :
           /\ \A o \in 0..(N_CLUSTERS - 1) :
                 FLe(GeodesicKm(<<lat, lon>>, centroids[c]),
                     GeodesicKm(<<lat, lon>>, centroids[o]))
           /\ \A o \in 0..(c - 1) :
                 FLt(GeodesicKm(<<lat, lon>>, centroids[c]),
                     GeodesicKm(<<lat, lon>>, centroids[o])))

\* lines 214-216: np.argmin gives the first index of the least distance
nearest_cluster(lat, lon) ==
    CHOOSE c \in 0..(N_CLUSTERS - 1) :
        /\ \A o \in 0..(N_CLUSTERS - 1) :
              FLe(GeodesicKm(<<lat, lon>>, centroids[c]),
                  GeodesicKm(<<lat, lon>>, centroids[o]))
        /\ \A o \in 0..(c - 1) :
              FLt(GeodesicKm(<<lat, lon>>, centroids[c]),
                  GeodesicKm(<<lat, lon>>, centroids[o]))

\* lines 218-221
AssignClusters ==
    /\ pc = "assign"
    /\ demand' = [i \in 1..Len(demand) |->
                    [name |-> demand[i].name,
                     lat |-> demand[i].lat,
                     lon |-> demand[i].lon,
                     weight |-> demand[i].weight,
                     source |-> demand[i].source,
                     cluster_id |-> nearest_cluster(demand[i].lat, demand[i].lon)]]
    /\ pc' = "summarize"
    /\ UNCHANGED <<shelterVars, geoVars, enc, reps, centroids, clusters_out,
                   uploadVars, circle>>

\* the least element of a non-empty set of float values
FMin(S) == CHOOSE x \in S : \A y \in S : FLe(x, y)

\* Series.max()
FMax(S) == CHOOSE x \in S : \A y \in S : FLe(y, x)

\* lines 229-235
nearest_shelter_dist(lat, lon) ==
    IF Len(agg) = 0 THEN FromInt(NoShelterKm)
    ELSE FMin({GeodesicKm(<<lat, lon>>, <<agg[i].lat, agg[i].lon>>) :
                 i \in 1..Len(agg)})

\* line 242: demand[demand["cluster_id"] == cid]
ClusterDemand(cid) == SelectSeq(demand, LAMBDA r : r.cluster_id = cid)

\* line 243
AvgSeverity(cid) ==
    IF Len(ClusterDemand(cid)) > 0
    THEN Mean(Column(ClusterDemand(cid), "weight"))
    ELSE FromInt(0)

\* lines 238-259: one summary row per cluster id
ClusterRow(cid) ==
    LET sev == AvgSeverity(cid)
        dist == nearest_shelter_dist(centroids[cid][1], centroids[cid][2])
    IN  [cluster_id |-> cid,
         recommended_lat |-> centroids[cid][1],
         recommended_lon |-> centroids[cid][2],
         avg_severity_index |-> sev,
         distance_to_nearest_shelter_km |-> dist,
         need_score_raw |-> FMul(sev, dist),
         priority |-> ""]

\* lines 264-268
NeedScore(raw, max_need) ==
    IF FLt(FromInt(0), max_need)
    THEN FMul(FDiv(raw, max_need), FromInt(100))
    ELSE FromInt(0)

WithNeedScore(r, max_need) ==
    [cluster_id |-> r.cluster_id,
     recommended_lat |-> r.recommended_lat,
     recommended_lon |-> r.recommended_lon,
     avg_severity_index |-> r.avg_severity_index,
     distance_to_nearest_shelter_km |-> r.distance_to_nearest_shelter_km,
     need_score_raw |-> r.need_score_raw,
     priority |-> r.priority,
     need_score |-> NeedScore(r.need_score_raw, max_need)]

\* lines 237-268
SummarizeClusters ==
    /\ pc = "summarize"
    /\ LET rows == [i \in 1..N_CLUSTERS |-> ClusterRow(i - 1)]
           max_need == FMax({rows[i].need_score_raw : i \in 1..N_CLUSTERS})
       IN  clusters_out' = [i \in 1..N_CLUSTERS |-> WithNeedScore(rows[i], max_need)]
    /\ pc' = "rank"
    /\ UNCHANGED <<shelterVars, geoVars, enc, demand, reps, centroids,
                   uploadVars, circle>>

priorities == <<"HIGH", "MEDIUM-HIGH", "MEDIUM", "MEDIUM-LOW", "LOW">>

\* a plausible variant: ascending=False is forgotten
SortedByNeedAscending(rows) ==
    \A i, j \in 1..Len(rows) :
        i < j => FLe(rows[i].need_score, rows[j].need_score)

\* line 271: sort_values("need_score", ascending=False); the default sort kind
\* is not stable, so rows of equal need_score come in any order
SortedByNeed(rows) ==
    \A i, j \in 1..Len(rows) :
        i < j => FLe(rows[j].need_score, rows[i].need_score)

\* the row orders a sort of the N_CLUSTERS summary rows can produce
RowOrders ==
    {f \in [1..N_CLUSTERS -> 1..N_CLUSTERS] :
        \A i, j \in 1..N_CLUSTERS : f[i] = f[j] => i = j}

\* lines 274-280: label the rows by rank, drop need_score_raw
Labelled(r, i) ==
    [cluster_id |-> r.cluster_id,
     recommended_lat |-> r.recommended_lat,
     recommended_lon |-> r.recommended_lon,
     avg_severity_index |-> r.avg_severity_index,
     distance_to_nearest_shelter_km |-> r.distance_to_nearest_shelter_km,
     priority |-> IF i <= Len(priorities) THEN priorities[i] ELSE r.priority,
     need_score |-> r.need_score]

\* lines 271-280
RankAndLabel ==
    /\ pc = "rank"
    /\ \E f \in RowOrders :
          LET sorted == [i \in 1..Len(clusters_out) |-> clusters_out[f[i]]]
          IN  /\ SortedByNeed(sorted)
              /\ clusters_out' = [i \in 1..Len(sorted) |-> Labelled(sorted[i], i)]
    /\ pc' = "upload"
    /\ UNCHANGED <<shelterVars, geoVars, enc, demand, reps, centroids,
                   uploadVars, circle>>

\* a geocoded shelter as sections 2-3 leave it
ShelterAt(la) == WithLatLon(AggOf(<<"Shelter A", "100 Queen St W">>), <<la, FromInt(0)>>)

\* section 5 starts with the geocoded shelters in agg and shelters_out
InitCluster ==
    /\ pc = "load_encampments"
    /\ df = <<>> /\ df_clean = <<>>
    /\ agg \in {<<>>, <<ShelterAt(FromInt(0))>>}
    /\ shelters_out = [i \in 1..Len(agg) |-> SheltersRow(agg[i])]
    /\ cache = <<>> /\ geoIdx = 0 /\ results = <<>> /\ geoCalls = <<>>
    /\ enc = <<>> /\ demand = <<>> /\ reps = <<>> /\ centroids = <<>>
    /\ clusters_out = <<>>
    /\ client = "None" /\ uploaded = {} /\ files = <<>> /\ log = <<>>
    /\ circle = <<>>

NextCluster ==
    \/ LoadEncampments
    \/ BuildDemand
    \/ ExpandAndCluster
    \/ AssignClusters
    \/ SummarizeClusters

\* sections 5-7 up to the normalized need score
SpecCluster == InitCluster /\ [][NextCluster]_vars

\* the encampment files of the ranking runs: weights missing (1.0) or zero
RankWeightCells == {NaN, FromInt(0)}

LoadRankedEncampments == ReadEncampments(RankWeightCells)

NextRank ==
    \/ LoadRankedEncampments
    \/ BuildDemand
    \/ ExpandAndCluster
    \/ AssignClusters
    \/ SummarizeClusters
    \/ RankAndLabel

\* sections 5-7 through ranking and priority labels
SpecRank == InitCluster /\ [][NextRank]_vars

(* ---- claims about demand points, clustering and scoring ---- *)

ClusterIds == 0..(N_CLUSTERS - 1)

Built == pc \in {"cluster", "assign", "summarize", "rank", "upload"}

Assigned == pc \in {"summarize", "rank", "upload"}

\* C4: every demand point of the builder's output has a weight that is not
\* NaN and is >= 0, whatever the input weight cell was (absent column,
\* missing, text, zero, positive or negative).
C4_WeightNonNegative ==
    Built => \A i \in 1..Len(demand) :
                /\ ~IsNaN(demand[i].weight)
                /\ FLe(FromInt(0), demand[i].weight)

\* C5: after clustering every original demand point carries one cluster_id in
\* [0, k), the index of a centroid at least distance from it, and the member
\* counts of clusters 0..k-1 sum to the number of input demand points.
C5_NearestCentroidPartition ==
    Assigned =>
        /\ Len(demand) = Len(enc.rows)
        /\ \A i \in 1..Len(demand) :
              /\ demand[i].cluster_id \in ClusterIds
              /\ \A c \in ClusterIds :
                    FLe(GeodesicKm(<<demand[i].lat, demand[i].lon>>,
                                   centroids[demand[i].cluster_id]),
                        GeodesicKm(<<demand[i].lat, demand[i].lon>>, centroids[c]))
        /\ SumInts([i \in 1..N_CLUSTERS |-> Len(ClusterDemand(i - 1))])
              = Len(enc.rows)

\* C5 witness: two points with different replication counts were assigned to
\* different clusters, one of them to a cluster other than 0 because
\* centroid 0 is farther away.
C5_Witness ==
    /\ pc = "summarize"
    /\ \E i, j \in 1..Len(demand) :
          /\ reps[i] # reps[j]
          /\ demand[i].cluster_id # demand[j].cluster_id
          /\ demand[i].cluster_id > 0
          /\ FLt(GeodesicKm(<<demand[i].lat, demand[i].lon>>,
                            centroids[demand[i].cluster_id]),
                 GeodesicKm(<<demand[i].lat, demand[i].lon>>, centroids[0]))

Scores == {clusters_out[i].need_score : i \in 1..Len(clusters_out)}

Raws == {clusters_out[i].need_score_raw : i \in 1..Len(clusters_out)}

\* the need_score properties of C6 on the summary rows
NeedScoresNormalized ==
    /\ (\E r \in Raws : FLt(FromInt(0), r)) => FMax(Scores) = FromInt(100)
    /\ (\A r \in Raws : r = FromInt(0)) => Scores = {FromInt(0)}
    /\ \A x \in Scores : InPercentRange(x)
    /\ \A i \in 1..Len(clusters_out) :
          Len(ClusterDemand(clusters_out[i].cluster_id)) = 0
              => clusters_out[i].avg_severity_index = FromInt(0)

\* C6: over the k cluster rows the largest need_score is exactly 100 when some
\* cluster has positive raw need, every need_score is 0 when every raw need is
\* 0, every need_score is in [0, 100], and a cluster without members is
\* scored with severity 0.
C6_NeedScoreNormalized == pc = "rank" => NeedScoresNormalized

\* what C6 says, for the runs in which no demand weight is negative
NeedScoreNormalizedForNonNegativeWeights ==
    (pc = "rank" /\ \A i \in 1..Len(demand) : FLe(FromInt(0), demand[i].weight))
        => NeedScoresNormalized

\* the rows carrying priority label number n
RowsLabelled(n) ==
    {i \in 1..Len(clusters_out) : clusters_out[i].priority = priorities[n]}

EachLabelOnce ==
    /\ Len(clusters_out) = N_CLUSTERS
    /\ \A n \in 1..Len(priorities) : Cardinality(RowsLabelled(n)) = 1
    /\ {clusters_out[i].cluster_id : i \in 1..Len(clusters_out)} = ClusterIds

\* C7 as stated: with k = 5 each label goes to exactly one cluster and a
\* cluster with a higher-priority label has a strictly greater need_score
\* than every cluster with a lower-priority label.
C7_LabelsStrictlyDescending ==
    pc = "upload" =>
        /\ EachLabelOnce
        /\ \A m, n \in 1..Len(priorities) : \A i \in RowsLabelled(m), j \in RowsLabelled(n) :
              m < n => FLt(clusters_out[j].need_score, clusters_out[i].need_score)

\* C7 amended: each label goes to exactly one cluster and a cluster with a
\* higher-priority label has a need_score greater than or equal to that of
\* every cluster with a lower-priority label.
C7_LabelsDescending ==
    pc = "upload" =>
        /\ EachLabelOnce
        /\ \A m, n \in 1..Len(priorities) : \A i \in RowsLabelled(m), j \in RowsLabelled(n) :
              m < n => FLe(clusters_out[j].need_score, clusters_out[i].need_score)

\* C7 witness: labelled clusters of which two have equal need_score and two
\* have different need_score.
C7_Witness ==
    /\ pc = "upload"
    /\ \E i, j \in 1..Len(clusters_out) :
          /\ i # j
          /\ clusters_out[i].priority # ""
          /\ clusters_out[j].priority # ""
          /\ clusters_out[i].need_score = clusters_out[j].need_score
    /\ FLt(clusters_out[N_CLUSTERS].need_score, clusters_out[1].need_score)
    /\ clusters_out[1].priority = "HIGH"
    /\ clusters_out[N_CLUSTERS].priority = "LOW"

-----------------------------------------------------------------------------
(* Section 8: BigQuery upload and local CSV files.                         *)

Tables == <<"homeless_points", "shelters", "clusters">>

LocalFiles == <<"demand_out.csv", "shelters_out.csv", "clusters_out.csv">>

\* line 320: the demand table as uploaded and written
HomelessRow(r) ==
    [point_name |-> r.name,
     lat |-> r.lat,
     lon |-> r.lon,
     weight |-> r.weight,
     source |-> r.source,
     cluster_id |-> r.cluster_id]

homeless_df == [i \in 1..Len(demand) |-> HomelessRow(demand[i])]

\* the data frame that goes to table / file number n (lines 323-325, 332-334)
FrameOf(n) ==
    CASE n = 1 -> homeless_df
      [] n = 2 -> shelters_out
      [] n = 3 -> clusters_out

UploadPc(n) ==
    CASE n = 1 -> "upload_homeless_points"
      [] n = 2 -> "upload_shelters"
      [] n = 3 -> "upload_clusters"
      [] OTHER -> "upload_success"

WritePc(n) ==
    CASE n = 1 -> "write_demand_out"
      [] n = 2 -> "write_shelters_out"
      [] n = 3 -> "write_clusters_out"
      [] OTHER -> "write_done"

\* lines 303-307: a client, or None with the failure logged
CreateClient ==
    /\ pc = "upload"
    /\ \/ client' = "Client" /\ UNCHANGED log
       \/ /\ client' = "None"
          /\ log' = Append(log, "Could not create BigQuery client; continuing without upload")
    /\ pc' = UploadPc(1)
    /\ UNCHANGED <<shelterVars, geoVars, clusterVars, uploaded, files, circle>>

\* a plausible variant: the local writes sit in the try block after the
\* uploads, so an upload that raises skips them
AfterUploadFailureSkipsWrites == "done"

\* lines 327-331: the except clause falls into the finally clause
AfterUploadFailure == WritePc(1)

\* lines 309-318 called from lines 323-325: one table per step
Upload(n) ==
    /\ pc = UploadPc(n)
    /\ IF client = "None"
       THEN /\ log' = Append(log, "Skipping upload (no BigQuery client)")
            /\ pc' = UploadPc(n + 1)
            /\ UNCHANGED uploaded
       ELSE \/ /\ uploaded' = uploaded \cup {[table |-> Tables[n], job |-> "ok"]}
               /\ pc' = UploadPc(n + 1)
               /\ UNCHANGED log
            \/ /\ uploaded' = uploaded \cup {[table |-> Tables[n], job |-> "raised"]}
               /\ log' = Append(log, "Upload failed:")
               /\ pc' = AfterUploadFailure
    /\ UNCHANGED <<shelterVars, geoVars, clusterVars, client, files, circle>>

UploadTable == \E n \in 1..Len(Tables) : Upload(n)

\* line 326, then the finally clause
UploadSuccess ==
    /\ pc = UploadPc(Len(Tables) + 1)
    /\ log' = Append(log, "SUCCESS! Uploaded homeless_points, shelters, and clusters.")
    /\ pc' = WritePc(1)
    /\ UNCHANGED <<shelterVars, geoVars, clusterVars, client, uploaded, files, circle>>

\* files with file f holding content
WithFile(f, content) ==
    [g \in (DOMAIN files) \cup {f} |-> IF g = f THEN content ELSE files[g]]

\* lines 331-334, 337-338: to_csv writes the file or raises
WriteCsv(n) ==
    /\ pc = WritePc(n)
    /\ \/ /\ files' = WithFile(LocalFiles[n], FrameOf(n))
          /\ pc' = WritePc(n + 1)
          /\ UNCHANGED log
       \/ /\ log' = Append(log, "Failed to write local CSVs:")
          /\ pc' = "done"
          /\ UNCHANGED files
    /\ UNCHANGED <<shelterVars, geoVars, clusterVars, client, uploaded, circle>>

WriteLocal == \E n \in 1..Len(LocalFiles) : WriteCsv(n)

\* lines 335-336
WriteDone ==
    /\ pc = WritePc(Len(LocalFiles) + 1)
    /\ log' = Append(log, "Wrote local CSVs: demand_out.csv, shelters_out.csv, clusters_out.csv")
    /\ pc' = "done"
    /\ UNCHANGED <<shelterVars, geoVars, clusterVars, client, uploaded, files, circle>>

\* the local files an earlier run left
StaleFiles == [f \in {LocalFiles[n] : n \in 1..Len(LocalFiles)} |-> <<[left_by |-> "earlier run"]>>]

\* section 8 starts after a run over one encampment at latitude la (weight
\* column absent), whose five centroids all lie on it
InitMaterialize ==
    /\ pc = "upload"
    /\ df = <<>> /\ df_clean = <<>>
    /\ agg \in {<<>>, <<ShelterAt(FromInt(0))>>}
    /\ shelters_out = [i \in 1..Len(agg) |-> SheltersRow(agg[i])]
    /\ cache = <<>> /\ geoIdx = 0 /\ results = <<>> /\ geoCalls = <<>>
    /\ \E la \in GeoLats :
          /\ enc = [has_weight |-> FALSE,
                    rows |-> <<[name |-> "camp", lat |-> la, lon |-> FromInt(0),
                                weight |-> NaN]>>]
          /\ demand = <<[name |-> "camp", lat |-> la, lon |-> FromInt(0),
                         weight |-> FromInt(1), source |-> "encampment",
                         cluster_id |-> 0]>>
          /\ centroids = [c \in 0..(N_CLUSTERS - 1) |-> <<la, FromInt(0)>>]
    /\ reps = <<Replications(demand[1].weight)>>
    /\ LET rows == [i \in 1..N_CLUSTERS |-> ClusterRow(i - 1)]
           max_need == FMax({rows[i].need_score_raw : i \in 1..N_CLUSTERS})
       IN  clusters_out =
              [i \in 1..N_CLUSTERS |-> Labelled(WithNeedScore(rows[i], max_need), i)]
    /\ client = "None" /\ uploaded = {} /\ log = <<>>
    /\ files \in {<<>>, StaleFiles}
    /\ circle = <<>>

NextMaterialize ==
    \/ CreateClient
    \/ UploadTable
    \/ UploadSuccess
    \/ WriteLocal
    \/ WriteDone

SpecMaterialize == InitMaterialize /\ [][NextMaterialize]_vars

(* ---- claims about the Output Materializer (SpecMaterialize) ---- *)

LogHas(msg) == \E i \in 1..Len(log) : log[i] = msg

LocalWriteRaised == LogHas("Failed to write local CSVs:")

AllWritten ==
    \A n \in 1..Len(LocalFiles) :
        /\ LocalFiles[n] \in DOMAIN files
        /\ files[LocalFiles[n]] = FrameOf(n)

\* C8: once the run is in the materialize step the three local tables are
\* written in every outcome of the upload (no client, an upload raises, all
\* uploads succeed), provided to_csv itself does not raise; an upload failure
\* never ends the run early, and nothing is uploaded without a client.
C8_LocalFilesAlwaysWritten ==
    /\ pc # "aborted"
    /\ client = "None" => uploaded = {}
    /\ (pc = "done" /\ ~LocalWriteRaised) => AllWritten
    /\ pc = "done" => (LocalWriteRaised \/ LogHas(
          "Wrote local CSVs: demand_out.csv, shelters_out.csv, clusters_out.csv"))
    /\ pc # "done" => ENABLED NextMaterialize

\* C8 witness: the run is over, an upload raised after an earlier one went
\* through, and the three files hold this run's tables.
C8_Witness ==
    /\ pc = "done"
    /\ \E u \in uploaded : u.job = "raised"
    /\ \E u \in uploaded : u.job = "ok"
    /\ AllWritten

-----------------------------------------------------------------------------
(* app.py: make_circle, the boundary polygon of a cluster.                 *)

AngleStep == 15

FullTurn == 360

\* 100 * cos of 0, 15, ..., 90 degrees, to two decimals
QuarterCos(a) ==
    CASE a = 0 -> 100
      [] a = 15 -> 97
      [] a = 30 -> 87
      [] a = 45 -> 71
      [] a = 60 -> 50
      [] a = 75 -> 26
      [] a = 90 -> 0

\* math.cos(math.radians(a)) for a whole multiple of 15 degrees in 0..360
CosDeg(a) ==
    IF a <= 90 THEN Fin(QuarterCos(a), 100)
    ELSE IF a <= 180 THEN Fin(-QuarterCos(180 - a), 100)
    ELSE IF a <= 270 THEN Fin(-QuarterCos(a - 180), 100)
    ELSE Fin(QuarterCos(360 - a), 100)

\* math.sin(math.radians(a))
SinDeg(a) == CosDeg((a + 270) % 360)

\* the centre latitudes of the model and math.cos(math.radians(lat)) for them
CentreLats == {FromInt(0), Fin(4365, 100), FromInt(60)}

CosLat(lat) ==
    CASE lat = FromInt(0) -> FromInt(1)
      [] lat = Fin(4365, 100) -> Fin(72, 100)
      [] lat = FromInt(60) -> Fin(50, 100)

CentreLons == {Fin(-7938, 100), FromInt(0)}

Radii == {Fin(12, 10), FromInt(2)}

\* lines 50-56: the vertex at one angle
CirclePoint(lat, lon, radius_km, angle) ==
    LET dx == FMul(FMul(radius_km, FromInt(KmPerDegree)), CosDeg(angle))
        dy == FMul(FMul(radius_km, FromInt(KmPerDegree)), SinDeg(angle))
    IN  <<FAdd(lat, FDiv(dy, FromInt(KmPerDegree))),
          FAdd(lon, FDiv(dx, FMul(FromInt(KmPerDegree), CosLat(lat))))>>

\* lines 49-56: one turn of the loop over range(0, 360, 15)
CircleStep ==
    /\ pc = "make_circle"
    /\ circle.angle < FullTurn
    /\ circle' = [circle EXCEPT
                    !.points = Append(@, CirclePoint(circle.lat, circle.lon,
                                                     circle.radius_km, circle.angle)),
                    !.angle = @ + AngleStep]
    /\ UNCHANGED <<pc, shelterVars, geoVars, clusterVars, uploadVars>>

\* line 57
CircleReturn ==
    /\ pc = "make_circle"
    /\ circle.angle >= FullTurn
    /\ pc' = "returned"
    /\ UNCHANGED <<circle, shelterVars, geoVars, clusterVars, uploadVars>>

\* make_circle(lat, lon, radius_km) is entered
InitBoundary ==
    /\ pc = "make_circle"
    /\ df = <<>> /\ df_clean = <<>> /\ agg = <<>>
    /\ cache = <<>> /\ geoIdx = 0 /\ results = <<>>
    /\ geoCalls = <<>> /\ shelters_out = <<>>
    /\ enc = <<>> /\ demand = <<>> /\ reps = <<>> /\ centroids = <<>>
    /\ clusters_out = <<>>
    /\ client = "None" /\ uploaded = {} /\ files = <<>> /\ log = <<>>
    /\ \E lat \in CentreLats, lon \in CentreLons, r \in Radii :
          circle = [lat |-> lat, lon |-> lon, radius_km |-> r,
                    angle |-> 0, points |-> <<>>]

NextBoundary == CircleStep \/ CircleReturn

SpecBoundary == InitBoundary /\ [][NextBoundary]_vars

(* ---- claim about the boundary polygon (SpecBoundary) ---- *)

\* |x| in tenths, rounded down
Tenths(x) == (Abs(x.n) * 10) \div x.d

\* the distance of vertex p from the centre is at most 5/4 of radius_km, with
\* 111 km per degree of latitude and 111 * cos(lat) km per degree of longitude
WithinRadius(p) ==
    LET north == FMul(FAdd(p[1], FNeg(circle.lat)), FromInt(KmPerDegree))
        east == FMul(FMul(FAdd(p[2], FNeg(circle.lon)), FromInt(KmPerDegree)),
                     CosLat(circle.lat))
        limit == Tenths(FMul(circle.radius_km, Fin(5, 4)))
    IN  Tenths(north) * Tenths(north) + Tenths(east) * Tenths(east)
            <= limit * limit

\* C9: the polygon make_circle returns has exactly 24 coordinate pairs, each
\* within about radius_km kilometres of (lat, lon).
C9_PolygonWithinRadius ==
    pc = "returned" =>
        /\ Len(circle.points) = 24
        /\ \A i \in 1..Len(circle.points) : WithinRadius(circle.points[i])

\* the part of C9 that holds: 24 pairs, one per 15-degree step
PolygonHas24Points == pc = "returned" => Len(circle.points) = 24

=============================================================================
